---- MODULE Spec2Model ----
(***************************************************************************)
(* Model of src/lib/api.ts: the browser-side session store (localStorage), *)
(* the header builder, the mock data generators and the request gateway    *)
(* (login, logout, isAuthenticated, getHealthData, getMessages,            *)
(* testApiConnection).                                                     *)
(*                                                                         *)
(* JavaScript strings are sequences of atoms.  An atom is either a single  *)
(* character ("0".."9", the double quote, the backslash, "{", ":", ...)    *)
(* or an indivisible run of ordinary characters that the program only ever *)
(* handles whole ("phoneNumber", "demo-token-", "Bearer ").  No atom of    *)
(* the second kind contains a character JSON or URL encoding treats        *)
(* specially, so concatenation, equality, escaping and parsing behave on   *)
(* atom sequences as they do on the character strings they stand for.      *)
(***************************************************************************)
EXTENDS Integers, Sequences, FiniteSets, TLC

VARIABLES storage, now, call, ret, threw, net

vars == <<storage, now, call, ret, threw, net>>

-----------------------------------------------------------------------------
(* Bounds of the model.                                                    *)

\* Largest clock reading (Date.now()) the model lets the clock reach.
MaxNow == 1

\* Longest `messages` array the remote service answers with.
MaxMsgs == 2

-----------------------------------------------------------------------------
(* JavaScript values.                                                      *)

Undef == [t |-> "undefined"]
Null == [t |-> "null"]
Bool(b) == [t |-> "boolean", b |-> b]
Num(n) == [t |-> "number", n |-> n]
Str(s) == [t |-> "string", s |-> s]
Arr(a) == [t |-> "array", a |-> a]
\* An object is the ordered sequence of its <<key, value>> properties.
Obj(p) == [t |-> "object", p |-> p]
DateV(ms) == [t |-> "date", ms |-> ms]
ErrorV(msg) == [t |-> "error", message |-> msg]

\* ToBoolean: what `!v`, `!!v`, `v || w` and `if (v)` test.
Truthy(v) ==
  CASE v.t = "undefined" -> FALSE
    [] v.t = "null" -> FALSE
    [] v.t = "boolean" -> v.b
    [] v.t = "number" -> v.n # 0
    [] v.t = "string" -> v.s # <<>>
    [] OTHER -> TRUE

\* `a || b`
OrElse(a, b) == IF Truthy(a) THEN a ELSE b

\* Reading a property of undefined or null raises a TypeError.
CanRead(v) == v.t \notin {"undefined", "null"}

RECURSIVE LastMatch(_, _, _)
LastMatch(p, key, i) ==
  IF i = 0 THEN Undef
  ELSE IF p[i][1] = key THEN p[i][2]
  ELSE LastMatch(p, key, i - 1)

\* `v.key` for a v that can be read: an own property of an object, undefined
\* for the named keys the model uses on any other value.
Prop(v, key) == IF v.t = "object" THEN LastMatch(v.p, key, Len(v.p)) ELSE Undef

DigitChars == <<"0", "1", "2", "3", "4", "5", "6", "7", "8", "9">>

DigitSet == {DigitChars[d] : d \in 1..10}

IsDigit(c) == c \in DigitSet

DigitValue(c) == (CHOOSE d \in 1..10 : DigitChars[d] = c) - 1

\* String(n) for an integer n >= 0.
RECURSIVE Digits(_)
Digits(n) == IF n < 10 THEN <<DigitChars[n + 1]>> ELSE Digits(n \div 10) \o <<DigitChars[(n % 10) + 1]>>

Quote == "\""
Backslash == "\\"

\* Date.prototype.toISOString, which JSON.stringify applies to a Date: the
\* instant rendered as text (here the atom "T" followed by the milliseconds).
ToISOString(ms) == <<"T">> \o Digits(ms)

\* String(v), as string concatenation and encodeURIComponent coerce.
ToStringJS(v) ==
  CASE v.t = "string" -> v.s
    [] v.t = "number" -> Digits(v.n)
    [] v.t = "boolean" -> IF v.b THEN <<"true">> ELSE <<"false">>
    [] v.t = "null" -> <<"null">>
    [] v.t = "undefined" -> <<"undefined">>
    [] OTHER -> <<"[object Object]">>

-----------------------------------------------------------------------------
(* JSON.stringify and JSON.parse, on the JSON the program meets: objects,  *)
(* arrays, strings with the escapes \" and \\, non-negative integers, true,*)
(* false and null, without insignificant white space.                      *)

RECURSIVE EscapeJSON(_)
EscapeJSON(s) ==
  IF s = <<>> THEN <<>>
  ELSE (IF Head(s) \in {Quote, Backslash} THEN <<Backslash, Head(s)>> ELSE <<Head(s)>>)
       \o EscapeJSON(Tail(s))

QuoteJSON(s) == <<Quote>> \o EscapeJSON(s) \o <<Quote>>

\* The texts of parts, comma-separated.
RECURSIVE JoinComma(_)
JoinComma(parts) ==
  IF parts = <<>> THEN <<>>
  ELSE IF Len(parts) = 1 THEN parts[1]
  ELSE parts[1] \o <<",">> \o JoinComma(Tail(parts))

IsDefinedMember(m) == m[2].t # "undefined"

RECURSIVE JSONstringify(_)

\* The text of array elements a: undefined elements are written as null.
StringifyElements(a) ==
  JoinComma([k \in 1..Len(a) |-> IF a[k].t = "undefined" THEN <<"null">> ELSE JSONstringify(a[k])])

\* The text of object properties q, none of them undefined.
StringifyMembers(q) ==
  JoinComma([k \in 1..Len(q) |-> QuoteJSON(q[k][1]) \o <<":">> \o JSONstringify(q[k][2])])

\* JSON.stringify(v), v not undefined.  Object properties whose value is
\* undefined are left out.
JSONstringify(v) ==
  CASE v.t = "string" -> QuoteJSON(v.s)
    [] v.t = "number" -> Digits(v.n)
    [] v.t = "boolean" -> IF v.b THEN <<"true">> ELSE <<"false">>
    [] v.t = "null" -> <<"null">>
    [] v.t = "date" -> QuoteJSON(ToISOString(v.ms))
    [] v.t = "array" -> <<"[">> \o StringifyElements(v.a) \o <<"]">>
    [] v.t = "object" -> <<"{">> \o StringifyMembers(SelectSeq(v.p, IsDefinedMember)) \o <<"}">>
    [] OTHER -> <<"{", "}">>

\* The atom at position i of text t, or "" past its end.
At(t, i) == IF i \in 1..Len(t) THEN t[i] ELSE ""

\* A parser step's result: ok, the value read, the position after it.
ParseFail == [ok |-> FALSE, v |-> Undef, i |-> 0]
ParseOk(v, i) == [ok |-> TRUE, v |-> v, i |-> i]

\* The rest of a string literal whose opening quote precedes position i.
RECURSIVE ParseString(_, _, _)
ParseString(t, i, acc) ==
  LET c == At(t, i) IN
  IF c = "" THEN ParseFail
  ELSE IF c = Quote THEN ParseOk(acc, i + 1)
  ELSE IF c = Backslash
    THEN IF At(t, i + 1) \in {Quote, Backslash}
           THEN ParseString(t, i + 2, Append(acc, At(t, i + 1)))
           ELSE ParseFail
  ELSE ParseString(t, i + 1, Append(acc, c))

\* The digits of an integer from position i on.
RECURSIVE ParseDigits(_, _, _)
ParseDigits(t, i, acc) ==
  IF IsDigit(At(t, i)) THEN ParseDigits(t, i + 1, 10 * acc + DigitValue(At(t, i)))
  ELSE ParseOk(Num(acc), i)

\* A value that is a single token at position i: a string, a literal name
\* or a number.
ParseScalar(t, i) ==
  LET c == At(t, i) IN
  CASE c = Quote -> LET s == ParseString(t, i + 1, <<>>) IN
                    IF s.ok THEN ParseOk(Str(s.v), s.i) ELSE ParseFail
    [] c = "true" -> ParseOk(Bool(TRUE), i + 1)
    [] c = "false" -> ParseOk(Bool(FALSE), i + 1)
    [] c = "null" -> ParseOk(Null, i + 1)
    [] c = "0" -> ParseOk(Num(0), i + 1)
    [] IsDigit(c) /\ c # "0" -> ParseDigits(t, i, 0)
    [] OTHER -> ParseFail

\* The open containers of the parse, innermost last.
ArrayFrame == [kind |-> "array", items |-> <<>>, key |-> <<>>]
ObjectFrame == [kind |-> "object", items |-> <<>>, key |-> <<>>]

Push(stack, frame) == Append(stack, frame)
Pop(stack) == SubSeq(stack, 1, Len(stack) - 1)
Top(stack) == stack[Len(stack)]
SetTop(stack, frame) == [stack EXCEPT ![Len(stack)] = frame]

\* The parser's state.  mode "value": a value is expected at position i;
\* "key": an object member ("key":value) is expected at i; "after": value v
\* has just been read and ends before i; "done": v is the value of the text
\* read up to i; "fail": the text is not JSON.
PState(i, stack, mode, v) == [i |-> i, stack |-> stack, mode |-> mode, v |-> v]

PFail == PState(0, <<>>, "fail", Undef)

\* The step after a scalar has been looked for at the current position.
AfterScalar(s, r) == IF r.ok THEN PState(r.i, s.stack, "after", r.v) ELSE PFail

\* The step after a member key has been looked for at the current position.
AfterKey(t, s, k) ==
  IF ~k.ok \/ At(t, k.i) # ":" THEN PFail
  ELSE PState(k.i + 1, SetTop(s.stack, [Top(s.stack) EXCEPT !.key = k.v]), "value", Undef)

\* The step that adds value s.v to the innermost open container, whose
\* items then are `items`, and reads the separator or closing bracket c.
AfterItem(s, top, items, c) ==
  IF c = ","
    THEN PState(s.i + 1, SetTop(s.stack, [top EXCEPT !.items = items]),
                IF top.kind = "array" THEN "value" ELSE "key", Undef)
  ELSE IF top.kind = "array" /\ c = "]" THEN PState(s.i + 1, Pop(s.stack), "after", Arr(items))
  ELSE IF top.kind = "object" /\ c = "}" THEN PState(s.i + 1, Pop(s.stack), "after", Obj(items))
  ELSE PFail

\* The item value v makes in container top: an element, or a member.
ItemOf(top, v) == IF top.kind = "array" THEN v ELSE <<top.key, v>>

\* One step of the parser on text t.
ParseStep(t, s) ==
  CASE s.mode = "value" ->
         (CASE At(t, s.i) = "{" ->
                 IF At(t, s.i + 1) = "}" THEN PState(s.i + 2, s.stack, "after", Obj(<<>>))
                 ELSE PState(s.i + 1, Push(s.stack, ObjectFrame), "key", Undef)
            [] At(t, s.i) = "[" ->
                 IF At(t, s.i + 1) = "]" THEN PState(s.i + 2, s.stack, "after", Arr(<<>>))
                 ELSE PState(s.i + 1, Push(s.stack, ArrayFrame), "value", Undef)
            [] OTHER -> AfterScalar(s, ParseScalar(t, s.i)))
    [] s.mode = "key" ->
         IF At(t, s.i) # Quote THEN PFail ELSE AfterKey(t, s, ParseString(t, s.i + 1, <<>>))
    [] s.mode = "after" ->
         IF s.stack = <<>> THEN PState(s.i, <<>>, "done", s.v)
         ELSE AfterItem(s, Top(s.stack), Append(Top(s.stack).items, ItemOf(Top(s.stack), s.v)), At(t, s.i))
    [] OTHER -> s

\* The second half of a run, entered once the first half has ended in s.
RECURSIVE ParseRun(_, _, _)
ParseOn(t, s, n) == IF s.mode \in {"done", "fail"} THEN s ELSE ParseRun(t, s, n)

\* n steps of the parser, or fewer when it ends before.
ParseRun(t, s, n) ==
  IF n <= 1 THEN ParseStep(t, s)
  ELSE ParseOn(t, ParseRun(t, s, n \div 2), n - (n \div 2))

\* The parse succeeds when the one value read ends where the text ends.
ParseResult(text, s) ==
  IF s.mode = "done" /\ s.i = Len(text) + 1 THEN [ok |-> TRUE, v |-> s.v] ELSE [ok |-> FALSE, v |-> Undef]

\* JSON.parse(text): ok = FALSE stands for the SyntaxError it raises.  Every
\* step but the last reads at least one atom, so Len(text) + 2 steps end it.
JSONparse(text) == ParseResult(text, ParseRun(text, PState(1, <<>>, "value", Undef), Len(text) + 2))

\* encodeURIComponent: the reserved characters of the model's alphabet are
\* percent-encoded, every other atom is kept.
RECURSIVE EncodeURIComponent(_)
EncodeURIComponent(s) ==
  IF s = <<>> THEN <<>>
  ELSE <<(CASE Head(s) = Quote -> "%22"
            [] Head(s) = Backslash -> "%5C"
            [] Head(s) = "+" -> "%2B"
            [] OTHER -> Head(s))>> \o EncodeURIComponent(Tail(s))

-----------------------------------------------------------------------------
(* localStorage and the session store.                                     *)

UserKey == "healthBuddieUser"
TokenKey == "healthBuddieToken"
PlainPhoneKey == "phoneNumber"
PlainTokenKey == "token"

StorageKeys == {UserKey, TokenKey, PlainPhoneKey, PlainTokenKey}

\* localStorage.getItem(key): the stored string, or null for an absent key.
getItem(st, key) == st[key]

\* localStorage.setItem(key, value), value a string.
setItem(st, key, value) == [st EXCEPT ![key] = Str(value)]

\* localStorage.removeItem(key)
removeItem(st, key) == [st EXCEPT ![key] = Null]

EmptyStorage == [k \in StorageKeys |-> Null]

getToken(st) == getItem(st, TokenKey)

\* What a try block hands to its catch clause or to the code after it.
Returns(v) == [threw |-> FALSE, v |-> v]
Throws(e) == [threw |-> TRUE, v |-> e]

SyntaxErrorV == ErrorV(<<"Unexpected token in JSON">>)
TypeErrorV == ErrorV(<<"Cannot read properties of null">>)

\* `user.phoneNumber || null` on what JSON.parse made of the stored profile.
PhoneNumberOf(user) ==
  IF ~user.ok THEN Throws(SyntaxErrorV)
  ELSE IF ~CanRead(user.v) THEN Throws(TypeErrorV)
  ELSE Returns(OrElse(Prop(user.v, <<"phoneNumber">>), Null))

\* The try block of getPhoneNumber.
getPhoneNumberTry(st) ==
  IF ~Truthy(getItem(st, UserKey)) THEN Returns(Null)
  ELSE PhoneNumberOf(JSONparse(getItem(st, UserKey).s))

\* The catch clause of getPhoneNumber: the error is logged, null returned.
CatchToNull(r) == IF r.threw THEN Null ELSE r.v

getPhoneNumber(st) == CatchToNull(getPhoneNumberTry(st))

\* Faulty variant of BuildHeaders: the phone number is URL-encoded.
BuildHeadersEncoded(token, phoneNumber) ==
  Obj(<< <<(<<"Content-Type">>), Str(<<"application/json">>)>> >>
      \o (IF Truthy(phoneNumber)
            THEN << <<(<<"X-Phone-Number">>), Str(EncodeURIComponent(ToStringJS(phoneNumber)))>> >>
            ELSE <<>>)
      \o (IF Truthy(token) THEN << <<(<<"Authorization">>), Str(<<"Bearer ">> \o token.s)>> >> ELSE <<>>))

\* The header object getHeaders builds from the token and phone number read.
BuildHeaders(token, phoneNumber) ==
  Obj(<< <<(<<"Content-Type">>), Str(<<"application/json">>)>> >>
      \o (IF Truthy(phoneNumber) THEN << <<(<<"X-Phone-Number">>), phoneNumber>> >> ELSE <<>>)
      \o (IF Truthy(token) THEN << <<(<<"Authorization">>), Str(<<"Bearer ">> \o token.s)>> >> ELSE <<>>))

getHeaders(st) == BuildHeaders(getToken(st), getPhoneNumber(st))

\* What a call hands back: the storage it leaves, the value it returns (or,
\* when threw, the value it throws), and the fetches it issued.
Outcome(st, value, didThrow, fetches) ==
  [storage |-> st, ret |-> value, threw |-> didThrow, net |-> fetches]

\* The failure envelope { success: false, error }.
Failure(error) == Obj(<< <<(<<"success">>), Bool(FALSE)>>, <<(<<"error">>), error>> >>)

QuotaExceededError == ErrorV(<<"QuotaExceededError">>)

\* The user object login builds; clk holds the readings of its clock reads.
NewUser(phoneNumber, clk) ==
  Obj(<< <<(<<"id">>), Str(<<"user-">> \o Digits(clk[1]))>>,
         <<(<<"phoneNumber">>), Str(phoneNumber)>>,
         <<(<<"createdAt">>), DateV(clk[2])>>,
         <<(<<"lastActive">>), DateV(clk[3])>>,
         <<(<<"verified">>), Bool(TRUE)>> >>)

\* The two writes of login's try block and its return.  failAt: which of
\* the two setItem calls raises (0: neither); what was written before the
\* failing call stays written.
StoreSession(st, user, tokenValue, failAt) ==
  CASE failAt = 1 -> Outcome(st, QuotaExceededError, TRUE, <<>>)
    [] failAt = 2 -> Outcome(setItem(st, UserKey, JSONstringify(user)), QuotaExceededError, TRUE, <<>>)
    [] OTHER -> Outcome(setItem(setItem(st, UserKey, JSONstringify(user)), TokenKey, tokenValue),
                        Obj(<< <<(<<"success">>), Bool(TRUE)>>, <<(<<"user">>), user>> >>), FALSE, <<>>)

\* Faulty variant of loginTry: the token is written under the plain key
\* 'token' instead of 'healthBuddieToken'.
loginTryPlainTokenKey(st, phoneNumber, clk, failAt) ==
  Outcome(setItem(setItem(st, UserKey, JSONstringify(NewUser(phoneNumber, clk))),
                  PlainTokenKey, <<"demo-token-">> \o Digits(clk[4])),
          Obj(<< <<(<<"success">>), Bool(TRUE)>>, <<(<<"user">>), NewUser(phoneNumber, clk)>> >>),
          FALSE, <<>>)

\* Faulty variant of loginTry: the phone number is also written under the
\* plain key 'phoneNumber'.
loginTryAlsoPlainPhone(st, phoneNumber, clk, failAt) ==
  StoreSession(setItem(st, PlainPhoneKey, phoneNumber), NewUser(phoneNumber, clk),
               <<"demo-token-">> \o Digits(clk[4]), failAt)

\* The try block of login(phoneNumber).  clk: the readings of its four clock
\* reads, in order.
loginTry(st, phoneNumber, clk, failAt) ==
  StoreSession(st, NewUser(phoneNumber, clk), <<"demo-token-">> \o Digits(clk[4]), failAt)

\* The catch clause of login: the error is logged and rethrown.
Rethrow(r) == IF r.threw THEN Outcome(r.storage, r.ret, TRUE, r.net) ELSE r

login(st, phoneNumber, clk, failAt) == Rethrow(loginTry(st, phoneNumber, clk, failAt))

\* Faulty variant of logout: the plain keys are removed instead of the
\* session's.
logoutPlainKeys(st) ==
  Outcome(removeItem(removeItem(st, PlainTokenKey), PlainPhoneKey), Undef, FALSE, <<>>)

logout(st) ==
  Outcome(removeItem(removeItem(st, TokenKey), UserKey), Undef, FALSE, <<>>)

\* Faulty variant of isAuthenticated: only the token is looked at.
isAuthenticatedTokenOnly(st) == Truthy(getToken(st))

isAuthenticated(st) == Truthy(getToken(st)) /\ Truthy(getPhoneNumber(st))

-----------------------------------------------------------------------------
(* Mock data generators.                                                   *)

DayMs == 24 * 60 * 60 * 1000

\* getMockExerciseLogs(); today: the reading of its `new Date()`.
getMockExerciseLogs(today) ==
  Arr(<< Obj(<< <<(<<"id">>), Str(<<"ex1">>)>>,
                <<(<<"date">>), DateV(today - 1 * DayMs)>>,
                <<(<<"duration">>), Num(30)>>,
                <<(<<"type">>), Str(<<"running">>)>>,
                <<(<<"distance">>), Str(<<"3 miles">>)>> >>),
         Obj(<< <<(<<"id">>), Str(<<"ex2">>)>>,
                <<(<<"date">>), DateV(today - 2 * DayMs)>>,
                <<(<<"duration">>), Num(45)>>,
                <<(<<"type">>), Str(<<"cycling">>)>>,
                <<(<<"distance">>), Str(<<"10 miles">>)>> >>),
         Obj(<< <<(<<"id">>), Str(<<"ex3">>)>>,
                <<(<<"date">>), DateV(today - 4 * DayMs)>>,
                <<(<<"duration">>), Num(60)>>,
                <<(<<"type">>), Str(<<"yoga">>)>>,
                <<(<<"distance">>), Str(<<>>)>> >>) >>)

\* getMockFoodLogs(); today: the reading of its `new Date()`.
getMockFoodLogs(today) ==
  Arr(<< Obj(<< <<(<<"id">>), Str(<<"food1">>)>>,
                <<(<<"date">>), DateV(today - 1 * DayMs)>>,
                <<(<<"foodItems">>), Str(<<"Salad with grilled chicken">>)>> >>),
         Obj(<< <<(<<"id">>), Str(<<"food2">>)>>,
                <<(<<"date">>), DateV(today - 2 * DayMs)>>,
                <<(<<"foodItems">>), Str(<<"Oatmeal with berries and honey">>)>> >>),
         Obj(<< <<(<<"id">>), Str(<<"food3">>)>>,
                <<(<<"date">>), DateV(today - 3 * DayMs)>>,
                <<(<<"foodItems">>), Str(<<"Pasta with tomato sauce">>)>> >>) >>)

\* The fallback getHealthData returns; clk: the readings of the two
\* generators' clock reads.
MockHealthData(clk) ==
  Obj(<< <<(<<"success">>), Bool(TRUE)>>,
         <<(<<"data">>), Obj(<< <<(<<"exerciseLogs">>), getMockExerciseLogs(clk[1])>>,
                                <<(<<"foodLogs">>), getMockFoodLogs(clk[2])>> >>)>> >>)

-----------------------------------------------------------------------------
(* The request gateway.  A fetch either rejects (kind "reject": a network  *)
(* error) or resolves to a response with a status and a body text;         *)
(* readFails: reading the body (response.text(), response.json()) rejects  *)
(* before any text arrives.                                                *)

ApiBaseUrl == <<"http://localhost:3000/api">>

Rejected == [kind |-> "reject"]
Response(status, body, readFails) ==
  [kind |-> "response", status |-> status, body |-> body, readFails |-> readFails]

\* response.ok
Ok(resp) == resp.status \in 200..299

FetchError == ErrorV(<<"Failed to fetch">>)
BodyReadError == ErrorV(<<"Failed to read the response body">>)

Request(url, headers) == [url |-> url, method |-> "GET", headers |-> headers]

\* One fetch as the call's trace records it: the request, and the answer.
Fetched(req, resp) == <<[request |-> req, response |-> resp]>>

\* response.text()
ResponseText(resp) ==
  IF resp.readFails THEN Throws(BodyReadError) ELSE Returns(Str(resp.body))

\* JSON.parse's result as a completion: the value, or the SyntaxError.
Parsed(parsed) == IF parsed.ok THEN Returns(parsed.v) ELSE Throws(SyntaxErrorV)

\* response.json()
ResponseJson(resp) ==
  IF resp.readFails THEN Throws(BodyReadError) ELSE Parsed(JSONparse(resp.body))

\* `${API_BASE_URL}<path>${encodeURIComponent(phoneNumber)}`
Url(path, phoneNumber) == ApiBaseUrl \o path \o EncodeURIComponent(ToStringJS(phoneNumber))

\* getHealthData's `throw new Error(errorText || 'Failed to get health data')`
HealthDataError(st, errorText, net1) ==
  IF errorText.threw THEN Outcome(st, errorText.v, TRUE, net1)
  ELSE Outcome(st, ErrorV(ToStringJS(OrElse(errorText.v, Str(<<"Failed to get health data">>)))), TRUE, net1)

\* getHealthData's `return await response.json()`
HealthDataBody(st, body, net1) ==
  IF body.threw THEN Outcome(st, body.v, TRUE, net1) ELSE Outcome(st, body.v, FALSE, net1)

\* getHealthData from its fetch on; net1: the fetch made and its answer.
HealthDataFetch(st, resp, net1) ==
  IF resp.kind = "reject" THEN Outcome(st, FetchError, TRUE, net1)
  ELSE IF ~Ok(resp) THEN HealthDataError(st, ResponseText(resp), net1)
  ELSE HealthDataBody(st, ResponseJson(resp), net1)

\* getHealthData's try block once the phone number has been read.
HealthDataFor(st, days, clk, resp, phoneNumber) ==
  IF ~Truthy(phoneNumber) THEN Outcome(st, MockHealthData(clk), FALSE, <<>>)
  ELSE HealthDataFetch(st, resp,
         Fetched(Request(Url(<<"/health-data?days=">> \o ToStringJS(days) \o <<"&phoneNumber=">>, phoneNumber),
                         getHeaders(st)), resp))

\* The default of the parameter `days = 7`.
DaysOrDefault(days) == IF days.t = "undefined" THEN Num(7) ELSE days

\* The try block of getHealthData(days).  days: the argument, undefined when
\* omitted.  clk: the readings of the mock generators' clock reads.
getHealthDataTry(st, days, clk, resp) ==
  HealthDataFor(st, DaysOrDefault(days), clk, resp, getPhoneNumber(st))

\* Faulty variant of CatchToMock: the error is returned in a failure
\* envelope, as the other operations do.
CatchToMockFailure(r, clk) ==
  IF r.threw THEN Outcome(r.storage, Failure(Str(<<"Failed to get health data">>)), FALSE, r.net) ELSE r

\* The catch clause of getHealthData: the error is logged and the mock data
\* returned.
CatchToMock(r, clk) ==
  IF r.threw THEN Outcome(r.storage, MockHealthData(clk), FALSE, r.net) ELSE r

getHealthData(st, days, clk, resp) == CatchToMock(getHealthDataTry(st, days, clk, resp), clk)

FailedToGetMessages == Str(<<"Failed to get messages">>)

\* getMessages on a response that is not ok; errorData: response.json().
MessagesError(st, errorData, net1) ==
  IF errorData.threw THEN Outcome(st, errorData.v, TRUE, net1)
  ELSE IF ~CanRead(errorData.v) THEN Outcome(st, TypeErrorV, TRUE, net1)
  ELSE Outcome(st, Failure(OrElse(Prop(errorData.v, <<"error">>), FailedToGetMessages)), FALSE, net1)

\* Faulty variant of MessagesData: the whole body is returned as data.
MessagesDataWhole(st, data, net1) ==
  IF data.threw THEN Outcome(st, data.v, TRUE, net1)
  ELSE Outcome(st, Obj(<< <<(<<"success">>), Bool(TRUE)>>, <<(<<"data">>), data.v>> >>), FALSE, net1)

\* getMessages on an ok response; data: response.json().
MessagesData(st, data, net1) ==
  IF data.threw THEN Outcome(st, data.v, TRUE, net1)
  ELSE IF ~CanRead(data.v) THEN Outcome(st, TypeErrorV, TRUE, net1)
  ELSE Outcome(st, Obj(<< <<(<<"success">>), Bool(TRUE)>>,
                          <<(<<"data">>), Prop(data.v, <<"messages">>)>> >>), FALSE, net1)

\* getMessages from its fetch on; net1: the fetch made and its answer.
MessagesFetch(st, resp, net1) ==
  IF resp.kind = "reject" THEN Outcome(st, FetchError, TRUE, net1)
  ELSE IF ~Ok(resp) THEN MessagesError(st, ResponseJson(resp), net1)
  ELSE MessagesData(st, ResponseJson(resp), net1)

\* The headers getMessages builds itself.
MessagesHeaders(token) ==
  Obj(<< <<(<<"Content-Type">>), Str(<<"application/json">>)>> >>
      \o (IF Truthy(token)
            THEN << <<(<<"Authorization">>), Str(<<"Bearer ">> \o ToStringJS(token))>> >>
            ELSE <<>>))

\* Faulty variant of MessagesFor: the request is made whether or not a phone
\* number was found.
MessagesForNoGuard(st, resp, phoneNumber) ==
  MessagesFetch(st, resp,
    Fetched(Request(Url(<<"/api/messages?phoneNumber=">>, phoneNumber),
                    MessagesHeaders(getItem(st, PlainTokenKey))), resp))

\* getMessages' try block once the phone number has been read.
MessagesFor(st, resp, phoneNumber) ==
  IF ~Truthy(phoneNumber) THEN Outcome(st, Failure(Str(<<"No phone number found">>)), FALSE, <<>>)
  ELSE MessagesFetch(st, resp,
         Fetched(Request(Url(<<"/api/messages?phoneNumber=">>, phoneNumber),
                         MessagesHeaders(getItem(st, PlainTokenKey))), resp))

\* The try block of getMessages.
getMessagesTry(st, resp) == MessagesFor(st, resp, getItem(st, PlainPhoneKey))

\* Faulty variant of CatchToFailure: the error is rethrown.
CatchRethrows(r) == r

\* The catch clause of getMessages: the error is logged and the generic
\* failure returned.
CatchToFailure(r) ==
  IF r.threw THEN Outcome(r.storage, Failure(FailedToGetMessages), FALSE, r.net) ELSE r

getMessages(st, resp) == CatchToFailure(getMessagesTry(st, resp))

\* response.json().catch(() => ({ error: `HTTP error! status: ${status}` }))
JsonOrStatus(body, status) ==
  IF body.threw THEN Obj(<< <<(<<"error">>), Str(<<"HTTP error! status: ">> \o Digits(status))>> >>)
  ELSE body.v

\* testApiConnection's `throw new Error(errorData.error || 'API is not reachable')`
ApiTestError(st, errorData, net1) ==
  IF ~CanRead(errorData) THEN Outcome(st, TypeErrorV, TRUE, net1)
  ELSE Outcome(st, ErrorV(ToStringJS(OrElse(Prop(errorData, <<"error">>), Str(<<"API is not reachable">>)))),
               TRUE, net1)

\* testApiConnection from its fetch on; net1: the fetch made and its answer.
ApiTestFetch(st, resp, net1) ==
  IF resp.kind = "reject" THEN Outcome(st, FetchError, TRUE, net1)
  ELSE IF ~Ok(resp) THEN ApiTestError(st, JsonOrStatus(ResponseJson(resp), resp.status), net1)
  ELSE Outcome(st, Obj(<< <<(<<"success">>), Bool(TRUE)>>,
                          <<(<<"message">>), Str(<<"API is reachable">>)>> >>), FALSE, net1)

\* testApiConnection's try block once the phone number has been read.
ApiTestFor(st, resp, phoneNumber) ==
  IF ~Truthy(phoneNumber)
    THEN Outcome(st, Failure(ErrorV(<<"No phone number available. Please log in again.">>)), FALSE, <<>>)
  ELSE ApiTestFetch(st, resp,
         Fetched(Request(Url(<<"/messages?phoneNumber=">>, phoneNumber), getHeaders(st)), resp))

\* The try block of testApiConnection.
testApiConnectionTry(st, resp) == ApiTestFor(st, resp, getPhoneNumber(st))

\* The catch clause of testApiConnection: the error is logged and returned
\* as the failure's error.
CatchToError(r) == IF r.threw THEN Outcome(r.storage, Failure(r.ret), FALSE, r.net) ELSE r

testApiConnection(st, resp) == CatchToError(testApiConnectionTry(st, resp))

-----------------------------------------------------------------------------
(* Inputs: what callers pass, what the clock reads, what the remote        *)
(* service answers, and what other code may have left in localStorage.     *)

Phone1 == <<"+", "1", "5", "5", "5", "1", "2", "3", "4", "5", "6", "7">>

\* A string no phone number looks like, with the characters JSON escapes.
OddPhone == <<"5", Quote, Backslash, "5">>

PhoneNumbers == {<<>>, Phone1, OddPhone}

\* The readings of k successive clock reads starting at the current time:
\* the clock never runs backwards and moves by at most one between reads.
ClockReads(k) ==
  {c \in [1..k -> now..MaxNow] :
     c[1] = now /\ \A i \in 1..(k - 1) : c[i + 1] \in {c[i], c[i] + 1}}

\* The readings of k clock reads during which the clock does not move.
SameInstant(k) == [i \in 1..k |-> now]

\* The inputs of a login call: its argument, its clock readings, and which
\* setItem call raises (0: neither).  Calls in which a write fails are taken
\* with the clock standing still.
LoginInputs ==
  {<<phoneNumber, clk, 0>> : phoneNumber \in PhoneNumbers, clk \in ClockReads(4)}
  \cup {<<phoneNumber, SameInstant(4), failAt>> : phoneNumber \in PhoneNumbers, failAt \in {1, 2}}

DaysArgs == {Undef, Num(30)}

Message1 ==
  Obj(<< <<(<<"id">>), Str(<<"m1">>)>>,
         <<(<<"content">>), Str(<<"I ran ", Quote, "5k", Quote, " ", Backslash, "o/">>)>>,
         <<(<<"type">>), Str(<<"incoming">>)>>,
         <<(<<"processed">>), Bool(TRUE)>>,
         <<(<<"category">>), Str(<<"exercise">>)>>,
         <<(<<"processed_data">>),
           Obj(<< <<(<<"exercise">>), Obj(<< <<(<<"duration">>), Num(30)>> >>)>> >>)>> >>)

Message2 ==
  Obj(<< <<(<<"id">>), Str(<<"m2">>)>>,
         <<(<<"content">>), Str(<<"status">>)>>,
         <<(<<"processed">>), Bool(FALSE)>>,
         <<(<<"processed_data">>), Null>> >>)

\* The `messages` arrays the service answers with: Message1, Message2,
\* Message1, ... up to MaxMsgs entries.
MessageArrays ==
  {Arr([i \in 1..k |-> IF i % 2 = 1 THEN Message1 ELSE Message2]) : k \in 0..MaxMsgs}

MessagesBody(m) == Obj(<< <<(<<"messages">>), m>> >>)

ErrorBody(e) == Obj(<< <<(<<"error">>), e>> >>)

HealthBody ==
  Obj(<< <<(<<"success">>), Bool(TRUE)>>,
         <<(<<"data">>), Obj(<< <<(<<"exerciseLogs">>), Arr(<<>>)>>,
                                <<(<<"foodLogs">>), Arr(<<>>)>> >>)>> >>)

\* Body texts: none, a truncated text, and the JSON the service writes.
BodyTexts ==
  {<<>>, <<"{", Quote, "messages">>}
  \cup {JSONstringify(v) : v \in {Null, HealthBody, ErrorBody(Str(<<"Server error">>)), ErrorBody(Str(<<>>))}}
  \cup {JSONstringify(MessagesBody(m)) : m \in MessageArrays}

Statuses == {200, 500}

Responses ==
  {Rejected}
  \cup {Response(status, body, FALSE) : status \in Statuses, body \in BodyTexts}
  \cup {Response(status, <<>>, TRUE) : status \in Statuses}

\* The inputs of a getHealthData call: its argument, the mock generators'
\* clock readings, and the answer to its fetch.  Every answer is taken with
\* the argument omitted and the clock standing still; every argument and
\* every pair of clock readings is taken with a fetch that rejects.
HealthDataInputs ==
  {<<Undef, SameInstant(2), resp>> : resp \in Responses}
  \cup {<<days, clk, Rejected>> : days \in DaysArgs, clk \in ClockReads(2)}
  \cup {<<Num(30), SameInstant(2), Response(200, JSONstringify(HealthBody), FALSE)>>}

ProfileTexts ==
  {<<"{", Quote, "phoneNumber">>, <<"null">>, <<"{", "}">>}
  \cup {JSONstringify(Obj(<< <<(<<"phoneNumber">>), v>> >>)) : v \in {Str(<<>>), Str(Phone1)}}

StoredProfiles == {Null} \cup {Str(t) : t \in ProfileTexts}
StoredTokens == {Null, Str(<<>>), Str(<<"tok123">>)}
StoredPlainPhones == {Null, Str(<<>>), Str(Phone1)}
StoredPlainTokens == {Null, Str(<<"tok123">>)}

\* The plain keys as some other part of the application may have left them.
\* The plain token is read only once a plain phone number was found (line
\* 168, after the return of line 160), so it varies only beside one.
StoredPlainKeys ==
  {<<p, pt>> \in StoredPlainPhones \X StoredPlainTokens : Truthy(p) \/ pt = Null}

StorageStates ==
  {[k \in StorageKeys |->
      CASE k = UserKey -> u [] k = TokenKey -> t [] k = PlainPhoneKey -> pk[1] [] OTHER -> pk[2]] :
     u \in StoredProfiles, t \in StoredTokens, pk \in StoredPlainKeys}

-----------------------------------------------------------------------------
(* The state machine.  The module's functions are called one at a time by  *)
(* the UI (single-threaded, calls made serially): a call runs, its caller  *)
(* takes the result, and only then is the next call made.                  *)
(*   storage: localStorage.   now: the clock.                              *)
(*   call: the call that has run and whose result the caller has not yet   *)
(*         taken, with its arguments and inputs; NoCall between calls.     *)
(*   ret: what that call returned, or what it threw when threw.            *)
(*   net: the fetches it issued, each with the answer it got.              *)

NoCall == [op |-> "none"]

InitRest ==
  /\ now = 0
  /\ call = NoCall
  /\ ret = Undef
  /\ threw = FALSE
  /\ net = <<>>

\* A fresh browser profile: nothing stored.
Init == storage = EmptyStorage /\ InitRest

\* localStorage as any earlier code may have left it.
InitAny == storage \in StorageStates /\ InitRest

Finish(o, c) ==
  /\ call = NoCall
  /\ storage' = o.storage
  /\ ret' = o.ret
  /\ threw' = o.threw
  /\ net' = o.net
  /\ call' = c

\* Time passes between calls.
Tick ==
  /\ call = NoCall
  /\ now < MaxNow
  /\ now' = now + 1
  /\ UNCHANGED <<storage, call, ret, threw, net>>

\* The caller takes the result of the call that has run.
Resume ==
  /\ call # NoCall
  /\ call' = NoCall
  /\ ret' = Undef
  /\ threw' = FALSE
  /\ net' = <<>>
  /\ UNCHANGED <<storage, now>>

Login ==
  \E in \in LoginInputs :
    LET o == login(storage, in[1], in[2], in[3]) IN
    /\ Finish(o, [op |-> "login", phoneNumber |-> in[1], clk |-> in[2], failAt |-> in[3]])
    /\ now' = in[2][4]

Logout ==
  LET o == logout(storage) IN
  /\ Finish(o, [op |-> "logout"])
  /\ UNCHANGED now

IsAuthenticated ==
  LET o == Outcome(storage, Bool(isAuthenticated(storage)), FALSE, <<>>) IN
  /\ Finish(o, [op |-> "isAuthenticated"])
  /\ UNCHANGED now

GetHeaders ==
  LET o == Outcome(storage, getHeaders(storage), FALSE, <<>>) IN
  /\ Finish(o, [op |-> "getHeaders"])
  /\ UNCHANGED now

GetHealthData ==
  \E in \in HealthDataInputs :
    LET o == getHealthData(storage, in[1], in[2], in[3]) IN
    /\ Finish(o, [op |-> "getHealthData", days |-> in[1], clk |-> in[2], resp |-> in[3]])
    /\ now' = in[2][2]

GetMessages ==
  \E resp \in Responses :
    LET o == getMessages(storage, resp) IN
    /\ Finish(o, [op |-> "getMessages", resp |-> resp])
    /\ UNCHANGED now

TestApiConnection ==
  \E resp \in Responses :
    LET o == testApiConnection(storage, resp) IN
    /\ Finish(o, [op |-> "testApiConnection", resp |-> resp])
    /\ UNCHANGED now

Next ==
  \/ Tick
  \/ Resume
  \/ Login
  \/ Logout
  \/ IsAuthenticated
  \/ GetHeaders
  \/ GetHealthData
  \/ GetMessages
  \/ TestApiConnection

Spec == Init /\ [][Next]_vars

SpecAny == InitAny /\ [][Next]_vars

-----------------------------------------------------------------------------
(* Vocabulary of the properties, stated on the stored data itself.         *)

HasProp(v, key) == v.t = "object" /\ \E i \in 1..Len(v.p) : v.p[i][1] = key

\* A token is stored: the token key holds a non-empty string.
TokenPresent(st) == st[TokenKey].t = "string" /\ st[TokenKey].s # <<>>

\* A profile text is stored and it is not JSON.
MalformedProfile(st) == st[UserKey].t = "string" /\ ~JSONparse(st[UserKey].s).ok

\* The phoneNumber of a parsed profile, undefined when there is none.
PhoneNumberIn(parsed) == IF parsed.ok THEN Prop(parsed.v, <<"phoneNumber">>) ELSE Undef

\* The phoneNumber the stored profile carries, undefined when there is none.
StoredPhoneNumber(st) ==
  IF st[UserKey].t = "string" THEN PhoneNumberIn(JSONparse(st[UserKey].s)) ELSE Undef

\* A usable identity is stored: the profile parses and carries a phoneNumber
\* that is not empty.
IdentityPresent(st) == Truthy(StoredPhoneNumber(st))

\* The plain 'phoneNumber' key holds a phone number.
PlainPhonePresent(st) == st[PlainPhoneKey].t = "string" /\ st[PlainPhoneKey].s # <<>>

\* v is { success: false, error: ... }.
IsFailure(v) == v.t = "object" /\ Prop(v, <<"success">>) = Bool(FALSE) /\ HasProp(v, <<"error">>)

NoPhoneNumberFound == Failure(Str(<<"No phone number found">>))

-----------------------------------------------------------------------------
(* Properties.                                                             *)

\* C1: once login(P) has succeeded for a non-empty phone number P, whatever
\* was stored before, isAuthenticated() is true and the profile stored under
\* 'healthBuddieUser' has phoneNumber equal to P.
C1_LoginAuthenticates ==
  (call.op = "login" /\ ~threw /\ call.phoneNumber # <<>>)
    => /\ isAuthenticated(storage)
       /\ StoredPhoneNumber(storage) = Str(call.phoneNumber)

\* A login with a phone number that needs JSON escaping has succeeded.
C1_Witness ==
  /\ call.op = "login"
  /\ ~threw
  /\ call.phoneNumber = OddPhone
  /\ StoredPhoneNumber(storage) = Str(OddPhone)

\* Neither session key is stored.
NoSessionKeys(st) == st[TokenKey] = Null /\ st[UserKey] = Null

\* C2: after logout(), isAuthenticated() is false whatever was stored before;
\* logout() changes nothing when neither session key is stored, and a second
\* logout() right after the first changes nothing.
C2_LogoutClearsAndIsIdempotent ==
  [][(call.op = "none" /\ call'.op = "logout")
       => /\ ~isAuthenticated(storage')
          /\ NoSessionKeys(storage')
          /\ (NoSessionKeys(storage) => storage' = storage)
          /\ logout(storage').storage = storage']_vars

\* logout() has run on a storage that still holds the plain keys.
C2_Witness ==
  /\ call.op = "logout"
  /\ NoSessionKeys(storage)
  /\ PlainPhonePresent(storage)
  /\ ~isAuthenticated(storage)

\* C3: isAuthenticated() is true exactly when a token and a usable identity
\* are stored; a malformed stored profile yields no identity, and
\* isAuthenticated() then returns false without throwing.
C3_AuthenticatedIffTokenAndIdentity ==
  /\ isAuthenticated(storage) = (TokenPresent(storage) /\ IdentityPresent(storage))
  /\ (MalformedProfile(storage) => getPhoneNumber(storage) = Null /\ ~isAuthenticated(storage))
  /\ (call.op = "isAuthenticated"
        => ~threw /\ ret = Bool(TokenPresent(storage) /\ IdentityPresent(storage)))

\* isAuthenticated() has answered false on a token with a malformed profile.
C3_Witness ==
  /\ call.op = "isAuthenticated"
  /\ TokenPresent(storage)
  /\ MalformedProfile(storage)
  /\ ret = Bool(FALSE)

\* C4: starting from empty storage, under any sequence of login and logout
\* calls (a login whose write fails included), the token key is stored
\* exactly when the profile key is.
C4_SessionCarriesBoth ==
  (storage[TokenKey] # Null) <=> (storage[UserKey] # Null /\ HasProp(JSONparse(storage[UserKey].s).v, <<"phoneNumber">>))

\* C5: when the identity is absent, the response is not 2xx, or the fetch
\* rejects, getHealthData does not throw and returns { success: true, data }
\* with the 3 mock exercise logs and the 3 mock food logs, never a failure.
C5_HealthDataFallsBack ==
  (call.op = "getHealthData"
     /\ (~IdentityPresent(storage) \/ call.resp.kind = "reject" \/ call.resp.status \notin 200..299))
    => /\ ~threw
       /\ ret = MockHealthData(call.clk)
       /\ Prop(ret, <<"success">>) = Bool(TRUE)
       /\ ~HasProp(ret, <<"error">>)
       /\ Len(Prop(Prop(ret, <<"data">>), <<"exerciseLogs">>).a) = 3
       /\ Len(Prop(Prop(ret, <<"data">>), <<"foodLogs">>).a) = 3
       /\ (~IdentityPresent(storage) => net = <<>>)

\* getHealthData has met HTTP 500 with an identity stored.
C5_Witness ==
  /\ call.op = "getHealthData"
  /\ IdentityPresent(storage)
  /\ call.resp.kind = "response"
  /\ call.resp.status = 500
  /\ Len(net) = 1
  /\ ret = MockHealthData(call.clk)

\* The answer's body cannot be read as JSON.
BodyUnparseable(resp) ==
  resp.kind = "response" /\ (resp.readFails \/ ~JSONparse(resp.body).ok)

\* C6: getMessages and testApiConnection never throw; a missing identity, a
\* response that is not 2xx, a fetch that rejects and a body that fails to
\* parse where it is parsed all end in { success: false, error }.
C6_FailuresAreReturned ==
  /\ (call.op \in {"getMessages", "testApiConnection"} => ~threw)
  /\ (call.op = "getMessages"
        /\ (~PlainPhonePresent(storage) \/ call.resp.kind = "reject"
              \/ call.resp.status \notin 200..299 \/ BodyUnparseable(call.resp))
        => IsFailure(ret))
  /\ (call.op = "testApiConnection"
        /\ (~IdentityPresent(storage) \/ call.resp.kind = "reject" \/ call.resp.status \notin 200..299)
        => IsFailure(ret))

\* getMessages has met a fetch that rejects.
C6_Witness ==
  /\ call.op = "getMessages"
  /\ PlainPhonePresent(storage)
  /\ call.resp.kind = "reject"
  /\ Len(net) = 1
  /\ IsFailure(ret)

\* C7: with no identity, getMessages returns exactly
\* { success: false, error: "No phone number found" } and testApiConnection
\* a failure whose error asks to log in again; neither issues a fetch.
C7_NoIdentityNoFetch ==
  /\ (call.op = "getMessages" /\ ~PlainPhonePresent(storage)
        => ~threw /\ net = <<>> /\ ret = NoPhoneNumberFound)
  /\ (call.op = "testApiConnection" /\ ~IdentityPresent(storage)
        => /\ ~threw
           /\ net = <<>>
           /\ IsFailure(ret)
           /\ Prop(ret, <<"error">>) = ErrorV(<<"No phone number available. Please log in again.">>))

\* getMessages has run with a session stored but no plain phone number.
C7_Witness ==
  /\ call.op = "getMessages"
  /\ ~PlainPhonePresent(storage)
  /\ TokenPresent(storage)
  /\ IdentityPresent(storage)
  /\ net = <<>>

\* C8: with an identity, on a 200 response whose body is { messages: M },
\* getMessages returns { success: true, data: M }.
C8_MessagesUnwrapped ==
  \A m \in MessageArrays :
    (call.op = "getMessages" /\ PlainPhonePresent(storage)
       /\ call.resp = Response(200, JSONstringify(MessagesBody(m)), FALSE))
      => ~threw /\ ret = Obj(<< <<(<<"success">>), Bool(TRUE)>>, <<(<<"data">>), m>> >>)

\* getMessages has returned two messages from a 200 response.
C8_Witness ==
  /\ call.op = "getMessages"
  /\ PlainPhonePresent(storage)
  /\ call.resp = Response(200, JSONstringify(MessagesBody(Arr(<<Message1, Message2>>))), FALSE)
  /\ Prop(ret, <<"data">>) = Arr(<<Message1, Message2>>)

ContentTypeJson == <<(<<"Content-Type">>), Str(<<"application/json">>)>>

\* C9: the headers always hold the JSON content type; they hold the phone
\* header, equal to the raw identity, exactly when an identity is stored,
\* and the bearer authorization with the token exactly when a token is
\* stored; with neither they hold the content type alone.
C9_HeadersFollowSession ==
  call.op = "getHeaders"
    => /\ ret.t = "object"
       /\ ret.p[1] = ContentTypeJson
       /\ \A i \in 1..Len(ret.p) :
            ret.p[i][1] \in {<<"Content-Type">>, <<"X-Phone-Number">>, <<"Authorization">>}
       /\ HasProp(ret, <<"X-Phone-Number">>) = IdentityPresent(storage)
       /\ (IdentityPresent(storage) => Prop(ret, <<"X-Phone-Number">>) = StoredPhoneNumber(storage))
       /\ HasProp(ret, <<"Authorization">>) = TokenPresent(storage)
       /\ (TokenPresent(storage)
             => Prop(ret, <<"Authorization">>) = Str(<<"Bearer ">> \o storage[TokenKey].s))
       /\ (~IdentityPresent(storage) /\ ~TokenPresent(storage) => ret = Obj(<<ContentTypeJson>>))

\* The headers have been built from a stored identity and token.
C9_Witness ==
  /\ call.op = "getHeaders"
  /\ IdentityPresent(storage)
  /\ TokenPresent(storage)
  /\ Len(ret.p) = 3

\* C10: starting from empty storage, login and logout never write the plain
\* 'phoneNumber' and 'token' keys, so getMessages keeps returning
\* { success: false, error: "No phone number found" } without a fetch, also
\* while isAuthenticated() is true.
C10_MessagesIgnoreSession ==
  /\ storage[PlainPhoneKey] = Null
  /\ storage[PlainTokenKey] = Null
  /\ (call.op = "getMessages" => ~threw /\ net = <<>> /\ ret = NoPhoneNumberFound)

\* getMessages has run while logged in.
C10_Witness ==
  /\ call.op = "getMessages"
  /\ isAuthenticated(storage)
  /\ ret = NoPhoneNumberFound

====
